---- MODULE Spec2Model ----
(***************************************************************************)
(* Resume matcher: the lazily loaded model singletons and the two batch    *)
(* pipelines of main.py, the contact extraction of resume_parser.py and   *)
(* the job-description extraction of job_parser.py.                        *)
(*                                                                         *)
(* Texts and file names are sequences of one-character strings.           *)
(* Similarities are integers in units of 1/Scale.                          *)
(***************************************************************************)
EXTENDS Integers, Sequences, FiniteSets, TLC

\* ------------------------------------------------------------------------
\* Characters and the character classes of Python's re module
\* ------------------------------------------------------------------------

UpperChars == <<"A","B","C","D","E","F","G","H","I","J","K","L","M",
                "N","O","P","Q","R","S","T","U","V","W","X","Y","Z">>

LowerChars == <<"a","b","c","d","e","f","g","h","i","j","k","l","m",
                "n","o","p","q","r","s","t","u","v","w","x","y","z">>

Range(s) == {s[i] : i \in DOMAIN s}

Upper == Range(UpperChars)

Lower == Range(LowerChars)

Digit == {"0","1","2","3","4","5","6","7","8","9"}

\* \s
Space == {" ", "\t", "\n", "\r", "\f"}

\* \w
Word == Upper \cup Lower \cup Digit \cup {"_"}

\* [-.\s]
PhoneSep == {"-", "."} \cup Space

\* str.lower() on one character
LowerChar(c) ==
  IF c \in Upper
    THEN LowerChars[CHOOSE i \in DOMAIN UpperChars : UpperChars[i] = c]
    ELSE c

\* str.upper() on one character
UpperChar(c) ==
  IF c \in Lower
    THEN UpperChars[CHOOSE i \in DOMAIN LowerChars : LowerChars[i] = c]
    ELSE c

\* str.lower()
ToLower(s) == [i \in DOMAIN s |-> LowerChar(s[i])]

\* s[:n]
Take(s, n) == SubSeq(s, 1, IF n < Len(s) THEN n ELSE Len(s))

RECURSIVE StripLeft(_)
StripLeft(s) ==
  IF s # <<>> /\ Head(s) \in Space THEN StripLeft(Tail(s)) ELSE s

RECURSIVE StripRight(_)
StripRight(s) ==
  IF s # <<>> /\ s[Len(s)] \in Space
    THEN StripRight(SubSeq(s, 1, Len(s) - 1))
    ELSE s

\* str.strip()
Strip(s) == StripRight(StripLeft(s))

\* str.endswith(suffix)
EndsWith(s, suffix) ==
  /\ Len(suffix) <= Len(s)
  /\ SubSeq(s, Len(s) - Len(suffix) + 1, Len(s)) = suffix

\* sub in s
Contains(s, sub) ==
  \E i \in 0..(Len(s) - Len(sub)) : SubSeq(s, i + 1, i + Len(sub)) = sub

\* str.replace(old, new) for one-character old and new
ReplaceChar(s, old, new) == [i \in DOMAIN s |-> IF s[i] = old THEN new ELSE s[i]]

RECURSIVE Flatten(_)
\* the concatenation of a sequence of sequences
Flatten(ss) ==
  IF Len(ss) = 0 THEN <<>>
  ELSE IF Len(ss) = 1 THEN ss[1]
  ELSE LET h == Len(ss) \div 2
       IN  Flatten(SubSeq(ss, 1, h)) \o Flatten(SubSeq(ss, h + 1, Len(ss)))

\* ------------------------------------------------------------------------
\* Regular expressions: a backtracking matcher with re's priorities
\* ------------------------------------------------------------------------
\* A pattern is a tree of records. A match state is <<pos, gs, ge>>: pos is
\* the number of characters consumed so far, gs..ge the span of group 1
\* (0, 0 while unset). Match returns the states in which the pattern can
\* end, in the order in which re's backtracking tries them: the head is the
\* match re reports.

OneOf(S) == [t |-> "set", s |-> S]

NoneOf(S) == [t |-> "nset", s |-> S]

Cat(xs) == [t |-> "cat", xs |-> xs]

Alt(xs) == [t |-> "alt", xs |-> xs]

\* r{lo,hi}; hi = -1 is no upper limit
Rep(r, lo, hi) == [t |-> "rep", r |-> r, lo |-> lo, hi |-> hi, greedy |-> TRUE]

\* r{lo,hi}?
RepLazy(r, lo, hi) == [t |-> "rep", r |-> r, lo |-> lo, hi |-> hi, greedy |-> FALSE]

Opt(r) == Rep(r, 0, 1)

Star(r) == Rep(r, 0, -1)

Plus(r) == Rep(r, 1, -1)

\* ^
Bol == [t |-> "bol"]

\* $
Eol == [t |-> "eol"]

\* ( ... ), group 1
Group(r) == [t |-> "grp", r |-> r]

\* a literal string
Lit(s) == Cat([i \in DOMAIN s |-> OneOf({s[i]})])

\* a literal string under re.IGNORECASE
LitI(s) == Cat([i \in DOMAIN s |-> OneOf({LowerChar(s[i]), UpperChar(s[i])})])

AtBol(text, pos, multiline) ==
  \/ pos = 0
  \/ multiline /\ text[pos] = "\n"

AtEol(text, pos, multiline) ==
  \/ pos = Len(text)
  \/ pos = Len(text) - 1 /\ text[Len(text)] = "\n"
  \/ multiline /\ pos < Len(text) /\ text[pos + 1] = "\n"

InClass(r, c) == IF r.t = "set" THEN c \in r.s ELSE c \notin r.s

\* the number of characters from pos on that are in the class r
RunLength(r, text, pos) ==
  LET j == CHOOSE j \in pos..Len(text) :
             /\ j = Len(text) \/ ~InClass(r, text[j + 1])
             /\ \A i \in (pos + 1)..j : InClass(r, text[i])
  IN  j - pos

\* r{lo,hi} for a character class r: the longest run first when greedy, the
\* shortest first when lazy
MatchClassRep(r, lo, hi, greedy, text, st) ==
  LET run  == RunLength(r, text, st[1])
      maxn == IF hi >= 0 /\ hi < run THEN hi ELSE run
  IN  IF maxn < lo THEN <<>>
      ELSE [k \in 1..(maxn - lo + 1) |->
             <<st[1] + (IF greedy THEN maxn - k + 1 ELSE lo + k - 1), st[2], st[3]>>]

RECURSIVE Match(_, _, _, _)
RECURSIVE MatchCat(_, _, _, _)
RECURSIVE MatchRep(_, _, _, _, _, _, _)

\* the end states of xs[1] xs[2] ... from each start state, in priority order
MatchCat(xs, text, sts, ml) ==
  IF xs = <<>> THEN sts
  ELSE MatchCat(Tail(xs), text,
                Flatten([k \in DOMAIN sts |-> Match(Head(xs), text, sts[k], ml)]),
                ml)

\* r{lo,hi}: one more r and then the rest, before (greedy) or after (lazy)
\* stopping here
MatchRep(r, lo, hi, greedy, text, st, ml) ==
  IF r.t \in {"set", "nset"} THEN MatchClassRep(r, lo, hi, greedy, text, st)
  ELSE
  LET once == IF hi = 0 THEN <<>> ELSE Match(r, text, st, ml)
      adv  == SelectSeq(once, LAMBDA s : s[1] > st[1])
      more == Flatten([k \in DOMAIN adv |->
                MatchRep(r, IF lo > 0 THEN lo - 1 ELSE 0,
                         IF hi > 0 THEN hi - 1 ELSE hi, greedy, text, adv[k], ml)])
      stop == IF lo = 0 THEN <<st>> ELSE <<>>
  IN  IF greedy THEN more \o stop ELSE stop \o more

Match(r, text, st, ml) ==
  CASE r.t = "set"  -> IF st[1] < Len(text) /\ text[st[1] + 1] \in r.s
                         THEN <<(<<st[1] + 1, st[2], st[3]>>)>> ELSE <<>>
    [] r.t = "nset" -> IF st[1] < Len(text) /\ text[st[1] + 1] \notin r.s
                         THEN <<(<<st[1] + 1, st[2], st[3]>>)>> ELSE <<>>
    [] r.t = "bol"  -> IF AtBol(text, st[1], ml) THEN <<st>> ELSE <<>>
    [] r.t = "eol"  -> IF AtEol(text, st[1], ml) THEN <<st>> ELSE <<>>
    [] r.t = "cat"  -> MatchCat(r.xs, text, <<st>>, ml)
    [] r.t = "alt"  -> Flatten([k \in DOMAIN r.xs |-> Match(r.xs[k], text, st, ml)])
    [] r.t = "rep"  -> MatchRep(r.r, r.lo, r.hi, r.greedy, text, st, ml)
    [] r.t = "grp"  -> LET inner == Match(r.r, text, st, ml)
                       IN  [k \in DOMAIN inner |-> <<inner[k][1], st[1], inner[k][1]>>]

\* the match re finds starting exactly at pos: <<>> or <<state>>
MatchAt(r, text, pos, ml) ==
  LET ends == Match(r, text, <<pos, 0, 0>>, ml)
  IN  IF ends = <<>> THEN <<>> ELSE <<Head(ends)>>

RECURSIVE FindIter(_, _, _, _)
\* re.finditer: the leftmost match at or after pos, then on from its end.
\* Each match is <<start, end, gs, ge>>.
FindIter(r, text, pos, ml) ==
  LET starts == {i \in pos..Len(text) : MatchAt(r, text, i, ml) # <<>>}
  IN  IF starts = {} THEN <<>>
      ELSE LET i  == CHOOSE i \in starts : \A j \in starts : i <= j
               m  == MatchAt(r, text, i, ml)[1]
               nx == IF m[1] > i THEN m[1] ELSE i + 1
           IN  <<(<<i, m[1], m[2], m[3]>>)>> \o FindIter(r, text, nx, ml)

\* ------------------------------------------------------------------------
\* resume_parser.py: the patterns of extract_resume_data
\* ------------------------------------------------------------------------

\* [\w.+-]+@[\w-]+\.[\w.-]+
email_pattern ==
  Cat(<<Plus(OneOf(Word \cup {".", "+", "-"})), OneOf({"@"}),
        Plus(OneOf(Word \cup {"-"})), OneOf({"."}),
        Plus(OneOf(Word \cup {".", "-"}))>>)

\* (?:\+\d{1,3}[-.\s]?)?
CountryCode ==
  Opt(Cat(<<OneOf({"+"}), Rep(OneOf(Digit), 1, 3), Opt(OneOf(PhoneSep))>>))

\* (?:\+\d{1,3}[-.\s]?)?\(?\d{3}\)?[-.\s]?\d{3}[-.\s]?\d{4}
PhoneNorthAmerican ==
  Cat(<<CountryCode, Opt(OneOf({"("})), Rep(OneOf(Digit), 3, 3),
        Opt(OneOf({")"})), Opt(OneOf(PhoneSep)), Rep(OneOf(Digit), 3, 3),
        Opt(OneOf(PhoneSep)), Rep(OneOf(Digit), 4, 4)>>)

\* (?:\+\d{1,3}[-.\s]?)?\d{5}[-.\s]?\d{5,6}
PhoneFiveFive ==
  Cat(<<CountryCode, Rep(OneOf(Digit), 5, 5), Opt(OneOf(PhoneSep)),
        Rep(OneOf(Digit), 5, 6)>>)

\* (?:\+\d{1,3}[-.\s]?)?\d{2,4}[-.\s]?\d{2,4}[-.\s]?\d{2,4}[-.\s]?\d{2,4}
PhoneGrouped ==
  Cat(<<CountryCode, Rep(OneOf(Digit), 2, 4), Opt(OneOf(PhoneSep)),
        Rep(OneOf(Digit), 2, 4), Opt(OneOf(PhoneSep)),
        Rep(OneOf(Digit), 2, 4), Opt(OneOf(PhoneSep)),
        Rep(OneOf(Digit), 2, 4)>>)

phone_patterns == <<"PhoneNorthAmerican", "PhoneFiveFive", "PhoneGrouped">>

\* [A-Z][a-z]+
CapWord == Cat(<<OneOf(Upper), Plus(OneOf(Lower))>>)

\* [A-Z][a-z]+(?:\s[A-Z][a-z]+){1,3}
CapName == Cat(<<CapWord, Rep(Cat(<<OneOf(Space), CapWord>>), 1, 3)>>)

\* ^([A-Z][a-z]+(?:\s[A-Z][a-z]+){1,3})\s*$
NameLine == Cat(<<Bol, Group(CapName), Star(OneOf(Space)), Eol>>)

\* ^([A-Z]+\s+[A-Z]+(?:\s+[A-Z]+)?)\s*$
NameAllCaps ==
  Cat(<<Bol,
        Group(Cat(<<Plus(OneOf(Upper)), Plus(OneOf(Space)), Plus(OneOf(Upper)),
                    Opt(Cat(<<Plus(OneOf(Space)), Plus(OneOf(Upper))>>))>>)),
        Star(OneOf(Space)), Eol>>)

\* (?:Name|NAME):\s*([A-Z][a-z]+(?:\s[A-Z][a-z]+){1,3})
NameLabel ==
  Cat(<<Alt(<<Lit(<<"N","a","m","e">>), Lit(<<"N","A","M","E">>)>>),
        OneOf({":"}), Star(OneOf(Space)), Group(CapName)>>)

\* (?:^|\n)([A-Z][a-z]+(?:\s[A-Z][a-z]+){1,3})(?:\n|$)
NameOwnLine ==
  Cat(<<Alt(<<Bol, OneOf({"\n"})>>), Group(CapName),
        Alt(<<OneOf({"\n"}), Eol>>)>>)

name_patterns == <<"NameLine", "NameAllCaps", "NameLabel", "NameOwnLine">>

\* ------------------------------------------------------------------------
\* main.py: the patterns of extract_client_information
\* ------------------------------------------------------------------------

ClientWord == LitI(<<"C","l","i","e","n","t">>)

\* ([^\n\r]+?)(?:\s*\n|$)
ClientRest ==
  Cat(<<Group(RepLazy(NoneOf({"\n", "\r"}), 1, -1)),
        Alt(<<Cat(<<Star(OneOf(Space)), OneOf({"\n"})>>), Eol>>)>>)

\* (?:^|\n)\s*Client\s*[:]\s*([^\n\r]+?)(?:\s*\n|$)
ClientColon ==
  Cat(<<Alt(<<Bol, OneOf({"\n"})>>), Star(OneOf(Space)), ClientWord,
        Star(OneOf(Space)), OneOf({":"}), Star(OneOf(Space)), ClientRest>>)

\* (?:^|\n)\s*Client\s+[:]\s*([^\n\r]+?)(?:\s*\n|$)
ClientSpaceColon ==
  Cat(<<Alt(<<Bol, OneOf({"\n"})>>), Star(OneOf(Space)), ClientWord,
        Plus(OneOf(Space)), OneOf({":"}), Star(OneOf(Space)), ClientRest>>)

\* (?:^|\n)\s*Client\s*[:]\s*\n?\s*([^\n\r]+?)(?:\s*\n|$)
ClientNextLine ==
  Cat(<<Alt(<<Bol, OneOf({"\n"})>>), Star(OneOf(Space)), ClientWord,
        Star(OneOf(Space)), OneOf({":"}), Star(OneOf(Space)),
        Opt(OneOf({"\n"})), Star(OneOf(Space)), ClientRest>>)

client_patterns == <<"ClientColon", "ClientSpaceColon", "ClientNextLine">>

\* Every pattern by name: its expression, whether it is compiled with
\* re.MULTILINE, and whether findall returns its group 1 or the whole match
Regex ==
  [email_pattern      |-> [re |-> email_pattern,      ml |-> FALSE, grp |-> FALSE],
   PhoneNorthAmerican |-> [re |-> PhoneNorthAmerican, ml |-> FALSE, grp |-> FALSE],
   PhoneFiveFive      |-> [re |-> PhoneFiveFive,      ml |-> FALSE, grp |-> FALSE],
   PhoneGrouped       |-> [re |-> PhoneGrouped,       ml |-> FALSE, grp |-> FALSE],
   NameLine           |-> [re |-> NameLine,           ml |-> TRUE,  grp |-> TRUE],
   NameAllCaps        |-> [re |-> NameAllCaps,        ml |-> TRUE,  grp |-> TRUE],
   NameLabel          |-> [re |-> NameLabel,          ml |-> TRUE,  grp |-> TRUE],
   NameOwnLine        |-> [re |-> NameOwnLine,        ml |-> TRUE,  grp |-> TRUE],
   ClientColon        |-> [re |-> ClientColon,        ml |-> FALSE, grp |-> TRUE],
   ClientSpaceColon   |-> [re |-> ClientSpaceColon,   ml |-> FALSE, grp |-> TRUE],
   ClientNextLine     |-> [re |-> ClientNextLine,     ml |-> FALSE, grp |-> TRUE]]

\* ------------------------------------------------------------------------
\* Texts
\* ------------------------------------------------------------------------
\* A text is named by the sequence of the pieces it is made of (<<>> is the
\* empty text). A piece has its characters and what spaCy's pipeline finds
\* in them: entities, noun chunks and sentences, each a span s..e.

ResumeA ==
  [chars |->
     <<"A","l"," ","B","o","\n","a","@","b",".","i","o","\n",
       "5","5","5","-","1","2","3","-","4","5","6","7","\n",
       "C","l","i","e","n","t",":"," ","A","c","m","e","\n",
       "R","u","s","t"," ","t","o","o","l","s","\n">>,
   ents        |-> <<[label |-> "PERSON", s |-> 1, e |-> 5]>>,
   noun_chunks |-> <<[s |-> 40, e |-> 49]>>,
   sents       |-> <<[s |-> 1, e |-> 5], [s |-> 27, e |-> 38], [s |-> 40, e |-> 49]>>]

ResumeB ==
  [chars |->
     <<"D","i"," ","c","v"," ","C","y"," ","D","i","\n",
       "9","8","7","6","5"," ","4","3","2","1","0","\n",
       "C","L","I","E","N","T"," ",":"," ","I","b","m","\n",
       "c","l","i","e","n","t",":"," ","S","a","p","\n",
       "R","u","s","t"," ","t","o","o","l","s","\n">>,
   ents        |-> <<[label |-> "PERSON", s |-> 1, e |-> 2],
                     [label |-> "PERSON", s |-> 7, e |-> 11],
                     [label |-> "ORG", s |-> 34, e |-> 36]>>,
   noun_chunks |-> <<[s |-> 50, e |-> 59]>>,
   sents       |-> <<[s |-> 1, e |-> 11], [s |-> 50, e |-> 59]>>]

JobRustDev ==
  [chars |-> <<"R","u","s","t"," ","d","e","v">>,
   ents |-> <<>>, noun_chunks |-> <<>>, sents |-> <<>>]

\* the first characters of a resume given to the entity recognizer
NameScanLimit == 1000

\* The lines of a resume's head. Each is a piece with no noun chunk and no
\* sentence of interest.
Line(chars, ents) ==
  [chars |-> chars, ents |-> ents, noun_chunks |-> <<>>, sents |-> <<>>]

\* a North-American number
LineNa == Line(<<"5","5","5","-","1","2","3","-","4","5","6","7","\n">>, <<>>)

\* five digits and five digits
LineFive == Line(<<"9","8","7","6","5"," ","4","3","2","1","0","\n">>, <<>>)

\* an international number in groups
LineIntl ==
  Line(<<"+","4","4"," ","2","0"," ","7","9","4","6"," ","0","9","5","8","\n">>,
       <<>>)

\* a capitalized name on its line
LineName ==
  Line(<<"A","l"," ","B","o","\n">>, <<[label |-> "PERSON", s |-> 1, e |-> 5]>>)

\* a name in capitals on its line
LineCaps == Line(<<"A","L"," ","B","O","\n">>, <<>>)

\* a labelled name
LineLabel ==
  Line(<<"N","a","m","e",":"," ","C","y"," ","D","i","\n">>,
       <<[label |-> "PERSON", s |-> 7, e |-> 11]>>)

\* prose with a one-word PERSON, a two-word PERSON and an address
LineProse ==
  Line(<<"c","v"," ","D","i"," ","C","y"," ","D","i"," ",
         "a","@","b",".","i","o","\n">>,
       <<[label |-> "PERSON", s |-> 4, e |-> 5],
         [label |-> "PERSON", s |-> 7, e |-> 11]>>)

\* as many characters as the entity recognizer is given, none of a name, a
\* number or an address
LinePad == Line([i \in 1..NameScanLimit |-> "#"], <<>>)

Piece ==
  [A |-> ResumeA, B |-> ResumeB, job |-> JobRustDev,
   na |-> LineNa, five |-> LineFive, intl |-> LineIntl, name |-> LineName,
   caps |-> LineCaps, label |-> LineLabel, prose |-> LineProse, pad |-> LinePad]

\* the characters of a text
Chars(t) == Flatten([k \in DOMAIN t |-> Piece[t[k]].chars])

ShiftSpans(spans, by) ==
  [k \in DOMAIN spans |-> [spans[k] EXCEPT !.s = @ + by, !.e = @ + by]]

RECURSIVE Analysis(_)
\* what spaCy's pipeline finds in a text
Analysis(t) ==
  IF t = <<>> THEN [ents |-> <<>>, noun_chunks |-> <<>>, sents |-> <<>>]
  ELSE LET front == SubSeq(t, 1, Len(t) - 1)
           a     == Analysis(front)
           by    == Len(Chars(front))
           last  == Piece[t[Len(t)]]
       IN  [ents        |-> a.ents \o ShiftSpans(last.ents, by),
            noun_chunks |-> a.noun_chunks \o ShiftSpans(last.noun_chunks, by),
            sents       |-> a.sents \o ShiftSpans(last.sents, by)]

\* The matches of every pattern in every text of a set. The state keeps this
\* table (variable rx): the matches are a function of the text alone and
\* are evaluated once.
ScanTexts(texts) ==
  [t \in texts |->
    [p \in DOMAIN Regex |-> FindIter(Regex[p].re, Chars(t), 0, Regex[p].ml)]]

\* ------------------------------------------------------------------------
\* State
\* ------------------------------------------------------------------------

VARIABLES
  rx,                     \* re.finditer's matches, per text and pattern
  folder,                 \* the files of resumes_folder, in os.walk's order
  spacy_installed,        \* whether en_core_web_md is installed
  jobSim,                 \* cosine similarity of a job text and a resume text
  skillSim,               \* cosine similarity of a skill and a phrase
  _nlp,                   \* main._nlp: 0 is None, else the instance
  _sentence_transformer,  \* main._sentence_transformer: 0 is None
  spacy_loads,            \* the models spacy.load has constructed so far
  st_loads,               \* the SentenceTransformers constructed so far
  call                    \* the last call of the pipeline and what it did

vars == <<rx, folder, spacy_installed, jobSim, skillSim, _nlp,
          _sentence_transformer, spacy_loads, st_loads, call>>

world == <<rx, folder, jobSim, skillSim>>

\* ------------------------------------------------------------------------
\* Bounds and inputs
\* ------------------------------------------------------------------------

\* the most files in the resumes folder
MaxFiles == 2

\* calls start only while spacy.load has constructed fewer models than this
MaxLoads == 2

\* similarities are multiples of 1/Scale: the threshold slider's step, 0.05
Scale == 20

\* min_threshold's default, 0.5
DefaultThreshold == 10

\* A file: its name, whether pdfplumber / python-docx can read it, and the
\* text they extract from it.
FileA ==
  [name |-> <<"a","l","_","b","o",".","p","d","f">>,
   readable |-> TRUE, text |-> <<"A">>]

FileB ==
  [name |-> <<"c","y","-","d","i",".","D","O","C","X">>,
   readable |-> TRUE, text |-> <<"B">>]

\* a corrupt PDF
FileBad ==
  [name |-> <<"b","a","d",".","p","d","f">>,
   readable |-> FALSE, text |-> <<>>]

\* a PDF with no text
FileEmpty ==
  [name |-> <<"e",".","p","d","f">>,
   readable |-> TRUE, text |-> <<>>]

\* not a resume: neither .pdf nor .docx
FileTxt ==
  [name |-> <<"n",".","t","x","t">>,
   readable |-> TRUE, text |-> <<"A">>]

FilePool == {FileA, FileB, FileBad, FileEmpty, FileTxt}

\* the sequences of at most n distinct elements of S
RECURSIVE Arrangements(_, _)
Arrangements(S, n) ==
  IF n = 0 THEN {<<>>}
  ELSE LET shorter == Arrangements(S, n - 1)
       IN  shorter \cup
           {Append(q, x) : <<q, x>> \in
              {<<q, x>> \in shorter \X S : x \notin Range(q)}}

Folders == Arrangements({FileA, FileB, FileBad, FileTxt}, MaxFiles)

resumes_folder == <<"r">>

JobText == <<"job">>

\* job_description_path: None, a literal text (empty or not), and a PDF on
\* disk that pdfplumber cannot read
JobSources ==
  {[kind |-> "none"],
   [kind |-> "literal", text |-> <<>>],
   [kind |-> "literal", text |-> JobText],
   [kind |-> "pdf", readable |-> FALSE, text |-> <<>>]}

SkillRust == <<"R","u","s","t">>

SkillSap == <<"S","a","p">>

SkillPool == {SkillRust, SkillSap}

SkillLists == Arrangements(SkillPool, Cardinality(SkillPool))

Thresholds == {DefaultThreshold, DefaultThreshold + 4}

PhraseRustTools == SubSeq(ResumeA.chars, 40, 49)

PhraseIbm == SubSeq(ResumeB.chars, 34, 36)

PhrasePool == {PhraseRustTools, PhraseIbm}

\* the similarities a skill and a phrase may have: below every threshold, the
\* default threshold itself, and above it
SimLevels == {DefaultThreshold - 8, DefaultThreshold, DefaultThreshold + 4}

\* the most lines of a resume's head
MaxSegs == 2

HeadLines == {"na", "five", "intl", "name", "caps", "label", "prose"}

\* the heads of at most MaxSegs lines, and the heads of one line at most
\* after NameScanLimit other characters
RECURSIVE Heads(_)
Heads(n) ==
  IF n = 0 THEN {<<>>}
  ELSE Heads(n - 1) \cup {Append(h, x) : h \in Heads(n - 1), x \in HeadLines}

ContactTexts == Heads(MaxSegs) \cup {<<"pad">> \o h : h \in Heads(1)}

ContactFile(t) ==
  [name |-> <<"c",".","p","d","f">>, readable |-> TRUE, text |-> t]

\* the folders of the files whose text is scored
ScoredFolders == Arrangements({FileA, FileB, FileEmpty, FileBad}, MaxFiles)

\* the model's similarity of each job text and resume text
DefaultJobSim ==
  [j \in {<<>>, JobText}, t \in {<<"A">>, <<"B">>, <<>>} |->
     IF j = <<>> THEN (IF t = <<>> THEN Scale ELSE 2)
     ELSE IF t = <<"A">> THEN 16 ELSE IF t = <<"B">> THEN 8 ELSE -2]

\* the model's similarity of each skill and phrase
DefaultSkillSim ==
  [k \in SkillPool, q \in PhrasePool |->
     IF k = SkillRust THEN (IF q = PhraseRustTools THEN 14 ELSE 6)
     ELSE IF q = PhraseIbm THEN 10 ELSE 6]

\* ------------------------------------------------------------------------
\* The libraries, as the code uses them
\* ------------------------------------------------------------------------

\* re.findall(pattern, text): the group's text of every match when the
\* pattern has a group, else the whole match's
re_findall(p, t) ==
  LET ms == rx[t][p]
      cs == Chars(t)
  IN  [k \in DOMAIN ms |->
        IF Regex[p].grp THEN SubSeq(cs, ms[k][3] + 1, ms[k][4])
        ELSE SubSeq(cs, ms[k][1] + 1, ms[k][2])]

\* nlp(text[:n]): what spaCy finds in the first n characters of the text
nlp(t, n) ==
  LET a == Analysis(t)
  IN  [ents        |-> SelectSeq(a.ents, LAMBDA x : x.e <= n),
       noun_chunks |-> SelectSeq(a.noun_chunks, LAMBDA x : x.e <= n),
       sents       |-> SelectSeq(a.sents, LAMBDA x : x.e <= n)]

\* span.text
SpanText(t, x) == SubSeq(Chars(t), x.s, x.e)

\* len(s.split())
SplitCount(s) ==
  Cardinality({i \in DOMAIN s :
                 s[i] \notin Space /\ (i = 1 \/ s[i - 1] \in Space)})

\* os.path.join(root, filename)
path_join(root, filename) == root \o <<"/">> \o filename

\* os.path.splitext(filename)[0]
splitext_root(filename) ==
  LET dots == {i \in DOMAIN filename :
                 /\ filename[i] = "."
                 /\ \E j \in 1..(i - 1) : filename[j] # "."}
  IN  IF dots = {} THEN filename
      ELSE SubSeq(filename, 1, (CHOOSE i \in dots : \A j \in dots : j <= i) - 1)

\* ------------------------------------------------------------------------
\* main.py: the model singletons
\* ------------------------------------------------------------------------
\* A step of a call works on the part of the state it may change:
\* m = [nlp, st, spacy_loads, st_loads, installed].

Models == [nlp |-> _nlp, st |-> _sentence_transformer,
           spacy_loads |-> spacy_loads, st_loads |-> st_loads,
           installed |-> spacy_installed]

\* spacy.load("en_core_web_md"): a new model, or OSError
spacy_load(m) ==
  IF m.installed
    THEN [raised |-> FALSE, value |-> m.spacy_loads + 1,
          m |-> [m EXCEPT !.spacy_loads = @ + 1]]
    ELSE [raised |-> TRUE, value |-> 0, m |-> m]

get_nlp_model(m) ==
  IF m.nlp = 0
    THEN LET l == spacy_load(m)
         IN  IF l.raised THEN [raised |-> TRUE, value |-> 0, m |-> m]
             ELSE [raised |-> FALSE, value |-> l.value,
                   m |-> [l.m EXCEPT !.nlp = l.value]]
    ELSE [raised |-> FALSE, value |-> m.nlp, m |-> m]

\* get_sentence_transformer without its "is None" test: it constructs on
\* every call
construct_always(m, ok) ==
  IF ok
    THEN [raised |-> FALSE, value |-> m.st_loads + 1,
          m |-> [m EXCEPT !.st = m.st_loads + 1, !.st_loads = @ + 1]]
    ELSE [raised |-> TRUE, value |-> 0, m |-> m]

\* SentenceTransformer("paraphrase-MiniLM-L6-v2") succeeds or raises: ok
get_sentence_transformer(m, ok) ==
  IF m.st = 0
    THEN IF ok
           THEN [raised |-> FALSE, value |-> m.st_loads + 1,
                 m |-> [m EXCEPT !.st = m.st_loads + 1, !.st_loads = @ + 1]]
           ELSE [raised |-> TRUE, value |-> 0, m |-> m]
    ELSE [raised |-> FALSE, value |-> m.st, m |-> m]

\* ------------------------------------------------------------------------
\* resume_parser.py
\* ------------------------------------------------------------------------

DotPdf == <<".","p","d","f">>

DotDocx == <<".","d","o","c","x">>

\* filename.lower().endswith(('.pdf', '.docx'))
IsResumeName(filename) ==
  EndsWith(ToLower(filename), DotPdf) \/ EndsWith(ToLower(filename), DotDocx)

\* the match that starts first in the text, whichever pattern finds it
EarliestMatch(patterns, t) ==
  LET hits == {k \in DOMAIN patterns : rx[t][patterns[k]] # <<>>}
      at(k) == rx[t][patterns[k]][1][1]
  IN  IF hits = {} THEN <<>>
      ELSE re_findall(patterns[CHOOSE k \in hits : \A j \in hits : at(k) <= at(j)],
                      t)[1]

\* for pattern in patterns: matches = re.findall(pattern, text);
\* if matches: take matches[0]; break.  <<>> when no pattern matches.
FirstMatch(patterns, t) ==
  LET hits == {k \in DOMAIN patterns : re_findall(patterns[k], t) # <<>>}
  IN  IF hits = {} THEN <<>>
      ELSE re_findall(patterns[CHOOSE k \in hits : \A j \in hits : k <= j], t)[1]

\* the first PERSON entity, of one word or more
FirstPersonOfAnyLength(t, doc) ==
  LET ok == {k \in DOMAIN doc.ents : doc.ents[k].label = "PERSON"}
  IN  IF ok = {} THEN <<>>
      ELSE SpanText(t, doc.ents[CHOOSE k \in ok : \A j \in ok : k <= j])

\* the first PERSON entity of at least two words, or <<>>
FirstPerson(t, doc) ==
  LET ok == {k \in DOMAIN doc.ents :
               /\ doc.ents[k].label = "PERSON"
               /\ SplitCount(SpanText(t, doc.ents[k])) >= 2}
  IN  IF ok = {} THEN <<>>
      ELSE SpanText(t, doc.ents[CHOOSE k \in ok : \A j \in ok : k <= j])

\* extract_resume_data(file_path), file being what is at file_path:
\* [raised, text, contact_info, m]
extract_resume_data(file_path, file, m) ==
  IF ~IsResumeName(file_path) \/ ~file.readable
    THEN [raised |-> TRUE, m |-> m]
    ELSE
      LET t         == file.text
          emails    == re_findall("email_pattern", t)
          email     == IF emails # <<>> THEN emails[1] ELSE <<>>
          phone     == FirstMatch(phone_patterns, t)
          byPattern == Strip(FirstMatch(name_patterns, t))
          load      == spacy_load(m)
          name      == IF byPattern # <<>> THEN byPattern
                       ELSE IF load.raised THEN <<>>
                       ELSE FirstPerson(t, nlp(t, NameScanLimit))
      IN  [raised |-> FALSE,
           text |-> t,
           contact_info |-> [name |-> Strip(name), email |-> Strip(email),
                             phone |-> Strip(phone)],
           m |-> IF byPattern # <<>> THEN m ELSE load.m]

\* ------------------------------------------------------------------------
\* job_parser.py
\* ------------------------------------------------------------------------

\* extract_job_description(source): [raised, text]
extract_job_description(source) ==
  CASE source.kind = "literal" -> [raised |-> FALSE, text |-> source.text]
    [] source.kind = "none"    -> [raised |-> TRUE, text |-> <<>>]
    [] OTHER -> IF source.readable
                  THEN [raised |-> FALSE, text |-> source.text]
                  ELSE [raised |-> TRUE, text |-> <<>>]

\* ------------------------------------------------------------------------
\* main.py: match_resumes
\* ------------------------------------------------------------------------

\* os.path.splitext(filename)[0].replace("_", " ").replace("-", " ")
name_from_file(filename) ==
  ReplaceChar(ReplaceChar(splitext_root(filename), "_", " "), "-", " ")

RECURSIVE InsertDesc(_, _, _)
\* x put after every element of the descending sequence s whose key is not
\* smaller than its own
InsertDesc(s, x, key) ==
  IF s = <<>> THEN <<x>>
  ELSE IF Head(s)[key] >= x[key] THEN <<Head(s)>> \o InsertDesc(Tail(s), x, key)
  ELSE <<x>> \o s

\* the results as they were appended, not sorted
as_appended(results, key) == results

RECURSIVE sorted_reverse(_, _)
\* sorted(results, key=lambda x: x[key], reverse=True): stable
sorted_reverse(results, key) ==
  IF results = <<>> THEN <<>>
  ELSE InsertDesc(sorted_reverse(SubSeq(results, 1, Len(results) - 1), key),
                  results[Len(results)], key)

\* Below, CHOOSE out \in {e(x) : x \in {v}} : TRUE is e(v), x naming the value
\* of v.
\*
\* A batch in progress: the results and the errors printed so far, the paths
\* given to extract_resume_data so far, the models, and whether an exception
\* has left the loop.
NewBatch(m) ==
  [results |-> <<>>, errors |-> <<>>, extracted |-> <<>>, m |-> m,
   raised |-> FALSE]

\* the body of match_resumes' loop without its try ... except: the exception
\* of extract_resume_data leaves the loop
match_one_uncaught(b, file, job_text) ==
  LET resume_path == path_join(resumes_folder, file.name)
  IN  CHOOSE out \in {
        LET seen  == [b EXCEPT !.extracted = Append(@, resume_path), !.m = r.m]
            entry == [name |-> IF r.contact_info.name = <<>>
                                 THEN name_from_file(file.name)
                               ELSE r.contact_info.name,
                      phone |-> r.contact_info.phone,
                      email |-> r.contact_info.email,
                      score |-> jobSim[job_text, r.text],
                      filename |-> file.name,
                      path |-> resume_path]
        IN  IF r.raised THEN [seen EXCEPT !.raised = TRUE]
            ELSE [seen EXCEPT !.results = Append(@, entry)] :
    r \in {extract_resume_data(resume_path, file, b.m)}} : TRUE

\* the body of match_resumes' loop for one .pdf/.docx file (try ... except)
match_one(b, file, job_text) ==
  LET resume_path == path_join(resumes_folder, file.name)
  IN  CHOOSE out \in {
        LET seen  == [b EXCEPT !.extracted = Append(@, resume_path), !.m = r.m]
            name  == IF r.contact_info.name = <<>> THEN name_from_file(file.name)
                     ELSE r.contact_info.name
            entry == [name |-> name,
                      phone |-> r.contact_info.phone,
                      email |-> r.contact_info.email,
                      score |-> jobSim[job_text, r.text],
                      filename |-> file.name,
                      path |-> resume_path]
        IN  IF r.raised
              THEN [seen EXCEPT !.errors = Append(@, resume_path)]
              ELSE [seen EXCEPT !.results = Append(@, entry)] :
    r \in {extract_resume_data(resume_path, file, b.m)}} : TRUE

RECURSIVE match_loop(_, _, _)
\* for filename in files: if filename.lower().endswith(...): ...
match_loop(b, files, job_text) ==
  IF files = <<>> \/ b.raised THEN b
  ELSE IF IsResumeName(Head(files).name)
    THEN CHOOSE out \in {
        match_loop(nb, Tail(files), job_text) :
      nb \in {match_one(b, Head(files), job_text)}} : TRUE
  ELSE match_loop(b, Tail(files), job_text)

\* match_resumes(job_description_path, resumes_folder); st_ok is whether
\* SentenceTransformer can be constructed if the call comes to it
match_resumes(job, st_ok) ==
  LET n    == get_nlp_model(Models)
      t    == get_sentence_transformer(n.m, st_ok)
      j    == extract_job_description(job)
      base == [op |-> "match_resumes", job |-> job, st_ok |-> st_ok,
               nlp |-> n.value,
               st |-> t.value, results |-> <<>>, errors |-> <<>>,
               extracted |-> <<>>]
  IN  IF n.raised
        THEN [m |-> n.m,
              call |-> [base EXCEPT !.st = 0] @@
                       [outcome |-> "raise", cause |-> "get_nlp_model"]]
      ELSE IF t.raised
        THEN [m |-> t.m,
              call |-> base @@ [outcome |-> "raise",
                                cause |-> "get_sentence_transformer"]]
      ELSE IF j.raised
        THEN [m |-> t.m,
              call |-> base @@ [outcome |-> "raise",
                                cause |-> "extract_job_description"]]
      ELSE CHOOSE out \in {
             IF b.raised
               THEN [m |-> b.m,
                     call |-> [base EXCEPT !.errors = b.errors,
                                           !.extracted = b.extracted] @@
                              [outcome |-> "raise", cause |-> "resume"]]
             ELSE [m |-> b.m,
                   call |-> [base EXCEPT
                               !.results = sorted_reverse(b.results, "score"),
                               !.errors = b.errors,
                               !.extracted = b.extracted] @@
                            [outcome |-> "return", cause |-> "none"]] :
        b \in {match_loop(NewBatch(t.m), folder, j.text)}} : TRUE

\* ------------------------------------------------------------------------
\* main.py: extract_client_information
\* ------------------------------------------------------------------------

GenericClients ==
  {<<"c","l","i","e","n","t">>, <<"c","u","s","t","o","m","e","r">>,
   <<"a","c","c","o","u","n","t">>}

\* the set built by the loops over client_patterns and their matches
client_names(t) ==
  LET found == UNION {Range(re_findall(client_patterns[k], t)) :
                        k \in DOMAIN client_patterns}
  IN  {Strip(c) : c \in {c \in found :
                           /\ Len(Strip(c)) > 2
                           /\ ToLower(Strip(c)) \notin GenericClients}}

\* extract_client_information(resume_text, doc): [raised, value, m];
\* has_doc is whether doc is given
extract_client_information(t, has_doc, m) ==
  LET n == IF has_doc THEN [raised |-> FALSE, m |-> m] ELSE get_nlp_model(m)
  IN  IF n.raised THEN [raised |-> TRUE, value |-> {}, m |-> n.m]
      ELSE [raised |-> FALSE, value |-> client_names(t), m |-> n.m]

\* ------------------------------------------------------------------------
\* main.py: filter_resumes_by_skills
\* ------------------------------------------------------------------------

skill_keywords ==
  <<(<<"e","x","p","e","r","i","e","n","c","e">>),
    (<<"p","r","o","f","i","c","i","e","n","t">>),
    (<<"s","k","i","l","l">>),
    (<<"t","e","c","h","n","o","l","o","g","y">>),
    (<<"f","r","a","m","e","w","o","r","k">>),
    (<<"l","a","n","g","u","a","g","e">>),
    (<<"t","o","o","l">>)>>

SkillLabels == {"ORG", "PRODUCT", "GPE"}

\* potential_skills: the noun chunks, the ORG / PRODUCT / GPE entities and the
\* sentences with a keyword, in this order
potential_skills(t) ==
  LET doc   == nlp(t, Len(Chars(t)))
      texts(spans) == [k \in DOMAIN spans |-> SpanText(t, spans[k])]
      named == SelectSeq(doc.ents, LAMBDA x : x.label \in SkillLabels)
      keyed == SelectSeq(doc.sents, LAMBDA x :
                 \E k \in DOMAIN skill_keywords :
                   Contains(ToLower(SpanText(t, x)), skill_keywords[k]))
  IN  texts(doc.noun_chunks) \o texts(named) \o texts(keyed)

\* max(similarities) of one skill over the phrases
max_similarity(skill, phrases) ==
  LET sims == {skillSim[skill, phrases[k]] : k \in DOMAIN phrases}
  IN  CHOOSE x \in sims : \A y \in sims : y <= x

RECURSIVE Sum(_)
Sum(xs) == IF xs = <<>> THEN 0 ELSE Head(xs) + Sum(Tail(xs))

\* a skill that counts only when its best similarity is above the threshold
above_threshold(skill, phrases, min_threshold) ==
  max_similarity(skill, phrases) > min_threshold

\* if max(similarities) >= min_threshold
meets_threshold(skill, phrases, min_threshold) ==
  max_similarity(skill, phrases) >= min_threshold

\* the best of the matched skills' scores instead of their mean
best_match_score(match_scores) ==
  CHOOSE x \in Range(match_scores) : \A y \in Range(match_scores) : y <= x

\* sum(match_scores) / len(match_scores)
avg_match_score(match_scores) == Sum(match_scores) \div Len(match_scores)

\* the body of filter_resumes_by_skills' loop for one .pdf/.docx file
filter_one(b, file, skills, min_threshold) ==
  LET resume_path == path_join(resumes_folder, file.name)
  IN  CHOOSE out \in {
        LET seen == [b EXCEPT !.extracted = Append(@, resume_path), !.m = r.m]
            name == IF r.contact_info.name = <<>> THEN name_from_file(file.name)
                    ELSE r.contact_info.name
        IN  IF r.raised THEN [seen EXCEPT !.errors = Append(@, resume_path)]
            ELSE CHOOSE out \in {
              IF phrases = <<>> THEN seen
              ELSE CHOOSE out \in {
                LET match_scores ==
                      [k \in DOMAIN matched_skills |->
                         max_similarity(matched_skills[k], phrases)]
                    entry ==
                      [name |-> name,
                       phone |-> r.contact_info.phone,
                       email |-> r.contact_info.email,
                       match_score |-> avg_match_score(match_scores),
                       matched_skills |-> matched_skills,
                       clients |->
                         extract_client_information(r.text, TRUE, r.m).value,
                       filename |-> file.name,
                       path |-> resume_path]
                IN  IF matched_skills = <<>> THEN seen
                    ELSE [seen EXCEPT !.results = Append(@, entry)] :
                matched_skills \in {SelectSeq(skills, LAMBDA k :
                          meets_threshold(k, phrases, min_threshold))}} : TRUE :
              phrases \in {potential_skills(r.text)}} : TRUE :
    r \in {extract_resume_data(resume_path, file, b.m)}} : TRUE

RECURSIVE filter_loop(_, _, _, _)
filter_loop(b, files, skills, min_threshold) ==
  IF files = <<>> \/ b.raised THEN b
  ELSE IF IsResumeName(Head(files).name)
    THEN CHOOSE out \in {
        filter_loop(nb, Tail(files), skills, min_threshold) :
      nb \in {filter_one(b, Head(files), skills, min_threshold)}} : TRUE
  ELSE filter_loop(b, Tail(files), skills, min_threshold)

\* filter_resumes_by_skills(resumes_folder, skills, min_threshold)
filter_resumes_by_skills(skills, min_threshold, st_ok) ==
  LET n    == get_nlp_model(Models)
      t    == get_sentence_transformer(n.m, st_ok)
      base == [op |-> "filter_resumes_by_skills", skills |-> skills,
               min_threshold |-> min_threshold, st_ok |-> st_ok,
               nlp |-> n.value,
               st |-> t.value, results |-> <<>>, errors |-> <<>>,
               extracted |-> <<>>]
  IN  IF n.raised
        THEN [m |-> n.m,
              call |-> [base EXCEPT !.st = 0] @@
                       [outcome |-> "raise", cause |-> "get_nlp_model"]]
      ELSE IF t.raised
        THEN [m |-> t.m,
              call |-> base @@ [outcome |-> "raise",
                                cause |-> "get_sentence_transformer"]]
      ELSE CHOOSE out \in {
             IF b.raised
               THEN [m |-> b.m,
                     call |-> [base EXCEPT !.errors = b.errors,
                                           !.extracted = b.extracted] @@
                              [outcome |-> "raise", cause |-> "resume"]]
             ELSE [m |-> b.m,
                   call |-> [base EXCEPT
                               !.results = sorted_reverse(b.results, "match_score"),
                               !.errors = b.errors,
                               !.extracted = b.extracted] @@
                            [outcome |-> "return", cause |-> "none"]] :
        b \in {filter_loop(NewBatch(t.m), folder, skills, min_threshold)}} : TRUE

\* ------------------------------------------------------------------------
\* The specification
\* ------------------------------------------------------------------------

Init ==
  /\ rx = ScanTexts({f.text : f \in FilePool} \cup {<<>>})
  /\ folder \in Folders
  /\ spacy_installed \in BOOLEAN
  /\ jobSim = DefaultJobSim
  /\ skillSim = DefaultSkillSim
  /\ _nlp = 0
  /\ _sentence_transformer = 0
  /\ spacy_loads = 0
  /\ st_loads = 0
  /\ call = [op |-> "none"]

\* what a call leaves behind
Finish(r) ==
  /\ _nlp' = r.m.nlp
  /\ _sentence_transformer' = r.m.st
  /\ spacy_loads' = r.m.spacy_loads
  /\ st_loads' = r.m.st_loads
  /\ spacy_installed' = r.m.installed
  /\ call' = r.call
  /\ UNCHANGED world

GetNlpModel ==
  /\ spacy_loads < MaxLoads
  /\ LET r == get_nlp_model(Models)
     IN  Finish([m |-> r.m,
                 call |-> [op |-> "get_nlp_model", nlp |-> r.value, st |-> 0,
                           outcome |-> IF r.raised THEN "raise" ELSE "return",
                           cause |-> IF r.raised THEN "get_nlp_model" ELSE "none"]])

GetSentenceTransformer ==
  /\ spacy_loads < MaxLoads
  /\ \E st_ok \in BOOLEAN :
       LET r == get_sentence_transformer(Models, st_ok)
       IN  Finish([m |-> r.m,
                   call |-> [op |-> "get_sentence_transformer", nlp |-> 0,
                             st |-> r.value, st_ok |-> st_ok,
                             outcome |-> IF r.raised THEN "raise" ELSE "return",
                             cause |-> IF r.raised THEN "get_sentence_transformer"
                                       ELSE "none"]])

MatchResumes ==
  /\ spacy_loads < MaxLoads
  /\ \E job \in JobSources, st_ok \in BOOLEAN :
       \E r \in {match_resumes(job, st_ok)} : Finish(r)

\* ------------------------------------------------------------------------
\* app.py: the start of the script
\* ------------------------------------------------------------------------

\* ensure_spacy_model(): spacy.load, and on OSError the download (which
\* succeeds or raises: download_ok) and spacy.load again
ensure_spacy_model(m, download_ok) ==
  LET first  == spacy_load(m)
      second == spacy_load([m EXCEPT !.installed = TRUE])
  IN  IF ~first.raised THEN first
      ELSE IF download_ok THEN second
      ELSE [raised |-> TRUE, value |-> 0, m |-> m]

\* nlp = ensure_spacy_model(); get_nlp_model(); get_sentence_transformer()
app_start(download_ok, st_ok) ==
  LET e    == ensure_spacy_model(Models, download_ok)
      n    == get_nlp_model(e.m)
      t    == get_sentence_transformer(n.m, st_ok)
      base == [op |-> "app_start", app_nlp |-> e.value, nlp |-> n.value,
               st |-> t.value, st_ok |-> st_ok]
  IN  IF e.raised
        THEN [m |-> e.m,
              call |-> [base EXCEPT !.nlp = 0, !.st = 0] @@
                       [outcome |-> "raise", cause |-> "ensure_spacy_model"]]
      ELSE IF t.raised
        THEN [m |-> t.m,
              call |-> base @@ [outcome |-> "raise",
                                cause |-> "get_sentence_transformer"]]
      ELSE [m |-> t.m, call |-> base @@ [outcome |-> "return", cause |-> "none"]]

AppStart ==
  /\ spacy_loads < MaxLoads
  /\ \E download_ok \in BOOLEAN, st_ok \in BOOLEAN :
       \E r \in {app_start(download_ok, st_ok)} : Finish(r)

\* the numbers of top matches to display that the slider is set to
TopNs == 1..MaxFiles

\* the body of the Match tab's loop for one .pdf/.docx file (try ... except):
\* the entry has the clients and no path, the error names the file
tab_match_one(b, file, job_text) ==
  LET file_path == path_join(resumes_folder, file.name)
  IN  CHOOSE out \in {
        LET seen  == [b EXCEPT !.extracted = Append(@, file_path), !.m = r.m]
            entry == [name |-> IF r.contact_info.name = <<>>
                                 THEN name_from_file(file.name)
                               ELSE r.contact_info.name,
                      email |-> r.contact_info.email,
                      phone |-> r.contact_info.phone,
                      score |-> jobSim[job_text, r.text],
                      clients |->
                        extract_client_information(r.text, TRUE, r.m).value,
                      filename |-> file.name]
        IN  IF r.raised THEN [seen EXCEPT !.errors = Append(@, file.name)]
            ELSE [seen EXCEPT !.results = Append(@, entry)] :
    r \in {extract_resume_data(file_path, file, b.m)}} : TRUE

RECURSIVE tab_match_loop(_, _, _)
\* for filename in os.listdir(temp_resume_dir): if filename.lower()...
tab_match_loop(b, files, job_text) ==
  IF files = <<>> THEN b
  ELSE IF IsResumeName(Head(files).name)
    THEN CHOOSE out \in {
        tab_match_loop(nb, Tail(files), job_text) :
      nb \in {tab_match_one(b, Head(files), job_text)}} : TRUE
  ELSE tab_match_loop(b, Tail(files), job_text)

\* what the Match Resumes button does in a run of the script that got past
\* its start with the models m: [m, call]. The job description entered as
\* an empty text is no job description; displayed is matches[:top_n].
match_tab(job, top_n, m) ==
  LET base == [op |-> "match_tab", job |-> job, top_n |-> top_n,
               matches |-> <<>>, displayed |-> <<>>, errors |-> <<>>,
               outcome |-> "return", cause |-> "none"]
      j    == extract_job_description(job)
      said(text) == [m |-> m, call |-> base @@ [message |-> text]]
  IN  IF job.kind = "none" \/ (job.kind = "literal" /\ job.text = <<>>)
        THEN said("Upload job description and resumes first.")
      ELSE IF \A k \in DOMAIN folder : ~IsResumeName(folder[k].name)
        THEN said("No resumes uploaded.")
      ELSE IF j.raised THEN said("Error")
      ELSE CHOOSE out \in {
             [m |-> b.m,
              call |-> [base EXCEPT
                          !.matches = b.results,
                          !.displayed =
                            SubSeq(b.results, 1,
                                   IF top_n < Len(b.results) THEN top_n
                                   ELSE Len(b.results)),
                          !.errors = b.errors] @@
                       [message |-> IF b.results = <<>> THEN "No matches found."
                                    ELSE "Top Resume Matches"]] :
        b \in {tab_match_loop(NewBatch(m), folder, j.text)}} : TRUE

\* a run of the script in which the Match Resumes button was pressed: the
\* start of the script, then the button's handler
MatchTab ==
  /\ spacy_loads < MaxLoads
  /\ \E download_ok \in BOOLEAN, st_ok \in BOOLEAN, job \in JobSources,
        top_n \in TopNs :
       \E s \in {app_start(download_ok, st_ok)} :
         IF s.call.outcome = "raise" THEN Finish(s)
         ELSE \E r \in {match_tab(job, top_n, s.m)} : Finish(r)

\* a call of extract_resume_data on a file of the folder
ExtractResumeData ==
  /\ spacy_loads < MaxLoads
  /\ \E k \in DOMAIN folder :
       LET file_path == path_join(resumes_folder, folder[k].name)
           r == extract_resume_data(file_path, folder[k], Models)
       IN  Finish([m |-> r.m,
                   call |-> IF r.raised
                     THEN [op |-> "extract_resume_data", file |-> k,
                           outcome |-> "raise", cause |-> "extract_resume_data"]
                     ELSE [op |-> "extract_resume_data", file |-> k,
                           outcome |-> "return", cause |-> "none",
                           text |-> r.text, contact_info |-> r.contact_info]])

\* a call of extract_client_information on the text of a file of the folder
ExtractClientInformation ==
  /\ spacy_loads < MaxLoads
  /\ \E k \in DOMAIN folder, has_doc \in BOOLEAN :
       LET r == extract_client_information(folder[k].text, has_doc, Models)
       IN  Finish([m |-> r.m,
                   call |-> [op |-> "extract_client_information", file |-> k,
                             has_doc |-> has_doc, clients |-> r.value,
                             outcome |-> IF r.raised THEN "raise" ELSE "return",
                             cause |-> IF r.raised THEN "get_nlp_model"
                                       ELSE "none"]])

FilterResumesBySkills ==
  /\ spacy_loads < MaxLoads
  /\ \E skills \in SkillLists, min_threshold \in Thresholds, st_ok \in BOOLEAN :
       \E r \in {filter_resumes_by_skills(skills, min_threshold, st_ok)} :
         Finish(r)

Next ==
  \/ AppStart
  \/ GetNlpModel
  \/ GetSentenceTransformer
  \/ MatchResumes
  \/ FilterResumesBySkills
  \/ ExtractResumeData
  \/ ExtractClientInformation

Spec == Init /\ [][Next]_vars

\* ------------------------------------------------------------------------
\* Properties of the batch calls
\* ------------------------------------------------------------------------

\* the .pdf/.docx files of the folder, in the order they are walked
ResumeFiles == SelectSeq(folder, LAMBDA f : IsResumeName(f.name))

PathOf(f) == path_join(resumes_folder, f.name)

Paths(files) == [k \in DOMAIN files |-> PathOf(files[k])]

\* a batch call that got past its models and its job description
InBatch ==
  /\ call.op \in {"match_resumes", "filter_resumes_by_skills"}
  /\ call.cause \in {"none", "resume"}

Returned(op) == call.op = op /\ call.outcome = "return"

\* C1: in match_resumes and filter_resumes_by_skills an exception raised while
\* one resume file is processed is caught at that file: the call returns, the
\* errors reported are the failing files, one each, every resume file of the
\* folder was processed, no failing file has an entry, and match_resumes
\* returns exactly one entry per file that did not fail.
C1_PerFileErrorsAreCaught ==
  InBatch =>
    /\ call.outcome = "return"
    /\ call.extracted = Paths(ResumeFiles)
    /\ call.errors = Paths(SelectSeq(ResumeFiles, LAMBDA f : ~f.readable))
    /\ \A k \in DOMAIN call.results :
         \E f \in Range(ResumeFiles) :
           f.readable /\ call.results[k].path = PathOf(f)
    /\ call.op = "match_resumes" =>
         /\ Len(call.results) = Len(SelectSeq(ResumeFiles, LAMBDA f : f.readable))
         /\ \A f \in Range(ResumeFiles) :
              f.readable => \E k \in DOMAIN call.results :
                              call.results[k].path = PathOf(f)

\* a corrupt file walked first and a valid one after it: one error, one entry
C1_Witness ==
  /\ Returned("match_resumes")
  /\ Len(folder) = 2 /\ ~folder[1].readable
  /\ Len(call.errors) = 1 /\ Len(call.results) = 1
  /\ call.results[1].path = PathOf(folder[2])

\* C2: the list match_resumes returns is non-increasing in "score" and the
\* list filter_resumes_by_skills returns is non-increasing in "match_score".
C2_ResultsAreRanked ==
  /\ Returned("match_resumes") =>
       \A i, j \in DOMAIN call.results :
         i < j => call.results[i].score >= call.results[j].score
  /\ Returned("filter_resumes_by_skills") =>
       \A i, j \in DOMAIN call.results :
         i < j => call.results[i].match_score >= call.results[j].match_score

\* the lower score is walked first and returned last
C2_Witness ==
  /\ Returned("match_resumes")
  /\ Len(call.results) = 2
  /\ call.results[1].path = PathOf(folder[2])
  /\ call.results[1].score > call.results[2].score

\* C5: when match_resumes is given no or an empty job description, or
\* filter_resumes_by_skills an empty skill list, no resume file is extracted or
\* scored before the operation stops.
C5_MissingInputHaltsFirst ==
  \/ /\ call.op = "match_resumes"
     /\ call.job.kind = "none" \/ (call.job.kind = "literal" /\ call.job.text = <<>>)
  \/ /\ call.op = "filter_resumes_by_skills"
     /\ call.skills = <<>>
  => call.extracted = <<>> /\ call.results = <<>>

\* C6: the spaCy model is loaded at most once in a process, whatever the
\* operations called (the start of the app, the batches, the extractions), and
\* the singleton, once set, is that one instance.
C6_SpacyLoadedOnce ==
  /\ spacy_loads <= 1
  /\ _nlp # 0 => _nlp = 1

\* C7: each entry match_resumes returns has a clients field, the clients of
\* that resume's text.
C7_MatchResultsCarryClients ==
  Returned("match_resumes") =>
    \A k \in DOMAIN call.results :
      /\ "clients" \in DOMAIN call.results[k]
      /\ \E f \in Range(ResumeFiles) :
           /\ call.results[k].path = PathOf(f)
           /\ call.results[k].clients = client_names(f.text)

\* ------------------------------------------------------------------------
\* Properties of the sentence-embedding singleton
\* ------------------------------------------------------------------------

\* the operations that come to get_sentence_transformer()
CallsSentenceTransformer(c) ==
  /\ c.op \in {"get_sentence_transformer", "match_resumes",
               "filter_resumes_by_skills", "app_start"}
  /\ c.cause \notin {"get_nlp_model", "ensure_spacy_model"}

\* C8: SentenceTransformer is constructed at most once after a successful
\* load, every call that gets the model gets that one instance, nothing resets
\* the singleton, and a construction that raises leaves the singleton unset and
\* raises in the caller.
C8_SentenceTransformerOnce ==
  /\ [](/\ st_loads <= 1
        /\ _sentence_transformer = st_loads
        /\ CallsSentenceTransformer(call) /\ call.cause # "get_sentence_transformer"
             => call.st = 1 /\ _sentence_transformer = 1)
  /\ [][/\ _sentence_transformer # 0
             => _sentence_transformer' = _sentence_transformer
        /\ (/\ _sentence_transformer = 0
            /\ call' # call
            /\ CallsSentenceTransformer(call')
            /\ ~call'.st_ok)
             => /\ call'.outcome = "raise"
                /\ call'.cause = "get_sentence_transformer"
                /\ _sentence_transformer' = 0
                /\ st_loads' = st_loads]_vars

\* a batch that could not have constructed the model returns with the instance
\* an earlier call constructed
C8_Witness ==
  /\ Returned("match_resumes")
  /\ ~call.st_ok
  /\ call.st = 1 /\ st_loads = 1
  /\ call.results # <<>>

\* ------------------------------------------------------------------------
\* filter_resumes_by_skills over every similarity of skills and phrases
\* ------------------------------------------------------------------------

InitFilter ==
  /\ rx = ScanTexts({f.text : f \in FilePool} \cup {<<>>})
  /\ folder \in ScoredFolders
  /\ spacy_installed = TRUE
  /\ jobSim = DefaultJobSim
  /\ skillSim \in [SkillPool \X PhrasePool -> SimLevels]
  /\ _nlp = 0
  /\ _sentence_transformer = 0
  /\ spacy_loads = 0
  /\ st_loads = 0
  /\ call = [op |-> "none"]

\* the first call of a process
FilterFirst == _nlp = 0 /\ FilterResumesBySkills

NextFilter == FilterFirst

SpecFilter == InitFilter /\ [][NextFilter]_vars

\* the requested skills one of whose similarities to a candidate phrase of
\* the file reaches the threshold, in the order requested
Reaching(f) ==
  LET phrases == potential_skills(f.text)
  IN  SelectSeq(call.skills, LAMBDA k :
        \E i \in DOMAIN phrases : skillSim[k, phrases[i]] >= call.min_threshold)

EntriesOf(f) == {k \in DOMAIN call.results : call.results[k].path = PathOf(f)}

\* C3: in what filter_resumes_by_skills returns, a resume that was read has
\* an entry (one) if and only if a requested skill's best similarity to its
\* candidate phrases is at least min_threshold; the entry's matched_skills are
\* the requested skills that reach it, in the order requested; a resume with
\* no candidate phrase or no skill reaching the threshold has neither an entry
\* nor an error.
C3_EntryIffSkillReachesThreshold ==
  Returned("filter_resumes_by_skills") =>
    \A f \in Range(ResumeFiles) :
      f.readable =>
        /\ PathOf(f) \notin Range(call.errors)
        /\ IF Reaching(f) = <<>> THEN EntriesOf(f) = {}
           ELSE /\ Cardinality(EntriesOf(f)) = 1
                /\ \A k \in EntriesOf(f) :
                     call.results[k].matched_skills = Reaching(f)

\* two skills requested; a resume whose best similarity equals the threshold
\* for the second skill only, and another resume left out
C3_Witness ==
  /\ Returned("filter_resumes_by_skills")
  /\ Len(call.skills) = 2 /\ call.errors = <<>>
  /\ \E f, g \in Range(ResumeFiles) :
       /\ potential_skills(g.text) # <<>> /\ EntriesOf(g) = {}
       /\ Reaching(f) = <<call.skills[2]>>
       /\ max_similarity(call.skills[2], potential_skills(f.text))
            = call.min_threshold

\* the best similarities of the entry's matched skills
MatchedBest(entry) ==
  LET f == CHOOSE f \in Range(ResumeFiles) : PathOf(f) = entry.path
  IN  [k \in DOMAIN entry.matched_skills |->
         max_similarity(entry.matched_skills[k], potential_skills(f.text))]

\* C4: each returned entry's match_score is the arithmetic mean of the best
\* similarities of its matched skills alone; so it is at least min_threshold
\* and between the smallest and the largest of them.
C4_ScoreIsMeanOfMatched ==
  Returned("filter_resumes_by_skills") =>
    \A k \in DOMAIN call.results :
      LET entry == call.results[k]
          best  == MatchedBest(entry)
      IN  /\ entry.match_score * Len(best) = Sum(best)
          /\ entry.match_score >= call.min_threshold
          /\ \E i \in DOMAIN best : best[i] <= entry.match_score
          /\ \E i \in DOMAIN best : best[i] >= entry.match_score

\* one skill of two matched, its score the entry's; and two matched skills
\* with different best similarities, the entry's score strictly between them
C4_Witness ==
  /\ Returned("filter_resumes_by_skills")
  /\ \E k \in DOMAIN call.results :
       /\ Len(call.skills) = 2
       /\ Len(call.results[k].matched_skills) = 1
  /\ \E k \in DOMAIN call.results :
       LET best == MatchedBest(call.results[k])
       IN  /\ Len(best) = 2
           /\ best[1] < call.results[k].match_score
           /\ call.results[k].match_score < best[2]

\* ------------------------------------------------------------------------
\* extract_resume_data over the heads of resumes
\* ------------------------------------------------------------------------

InitContact ==
  /\ folder \in {<<ContactFile(t)>> : t \in ContactTexts}
  /\ rx = ScanTexts({folder[1].text})
  /\ spacy_installed \in BOOLEAN
  /\ jobSim = DefaultJobSim
  /\ skillSim = DefaultSkillSim
  /\ _nlp = 0
  /\ _sentence_transformer = 0
  /\ spacy_loads = 0
  /\ st_loads = 0
  /\ call = [op |-> "none"]

NextContact == ExtractResumeData

SpecContact == InitContact /\ [][NextContact]_vars

\* a call of extract_resume_data that returned, and the text it was given
Extracted == call.op = "extract_resume_data" /\ call.outcome = "return"

TextOf(c) == folder[c.file].text

\* the patterns of a chain that match something in the text
Matching(patterns, t) ==
  {k \in DOMAIN patterns : re_findall(patterns[k], t) # <<>>}

\* the first match of the first of the patterns before which none matches
ChainResult(patterns, t) ==
  IF Matching(patterns, t) = {} THEN <<>>
  ELSE LET k == CHOOSE k \in Matching(patterns, t) :
                  \A j \in 1..(k - 1) : j \notin Matching(patterns, t)
       IN  Strip(re_findall(patterns[k], t)[1])

\* the PERSON entities of two words or more that end within the first
\* NameScanLimit characters, in the order of the text
FullNames(t) ==
  SelectSeq(Analysis(t).ents, LAMBDA x :
    /\ x.label = "PERSON"
    /\ x.e <= NameScanLimit
    /\ \E i \in x.s..(x.e - 1) :
         Chars(t)[i] \in Space /\ Chars(t)[i + 1] \notin Space)

\* C9: the name is the first match of the first of the four patterns that
\* matches; spaCy is loaded only when none of the four matches, and the name is
\* then the first PERSON entity of two words or more in the first 1000
\* characters; if spaCy cannot be loaded the name is empty and the text, the
\* email and the phone are returned all the same.
C9_NameChain ==
  /\ [](Extracted =>
          LET t == TextOf(call)
              found == Matching(name_patterns, t) # {}
          IN  /\ call.text = t
              /\ call.contact_info.email =
                   (IF re_findall("email_pattern", t) = <<>> THEN <<>>
                    ELSE Strip(re_findall("email_pattern", t)[1]))
              /\ call.contact_info.phone = ChainResult(phone_patterns, t)
              /\ found => call.contact_info.name = ChainResult(name_patterns, t)
              /\ ~found /\ spacy_installed =>
                   call.contact_info.name =
                     (IF FullNames(t) = <<>> THEN <<>>
                      ELSE Strip(SpanText(t, FullNames(t)[1])))
              /\ ~found /\ ~spacy_installed => call.contact_info.name = <<>>)
  /\ [][spacy_loads' # spacy_loads =>
          /\ call'.op = "extract_resume_data"
          /\ call'.outcome = "return"
          /\ Matching(name_patterns, TextOf(call')) = {}]_vars

\* no pattern finds a name, spaCy is not installed, and the text has a full
\* name, an address and a number: the name is empty, the others are returned
C9_Witness ==
  /\ Extracted
  /\ ~spacy_installed
  /\ Matching(name_patterns, TextOf(call)) = {}
  /\ FullNames(TextOf(call)) # <<>>
  /\ call.contact_info.name = <<>>
  /\ call.contact_info.email # <<>>
  /\ call.contact_info.phone # <<>>

\* C10: the phone is the first match of the first of the three patterns
\* (North-American, five and five or six digits, grouped) that matches
\* anywhere in the text, whatever a later pattern matches and wherever; it
\* is empty only if none of the three matches.
C10_PhoneChain ==
  Extracted =>
    LET t        == TextOf(call)
        found(k) == re_findall(phone_patterns[k], t)
    IN  /\ \A k \in DOMAIN phone_patterns :
             (found(k) # <<>> /\ \A j \in 1..(k - 1) : found(j) = <<>>)
               => call.contact_info.phone = Strip(found(k)[1])
        /\ call.contact_info.phone = <<>>
             <=> \A k \in DOMAIN phone_patterns : found(k) = <<>>

\* the grouped pattern's first match starts before the North-American
\* pattern's, and the phone is the North-American pattern's
C10_Witness ==
  /\ Extracted
  /\ rx[TextOf(call)]["PhoneNorthAmerican"] # <<>>
  /\ rx[TextOf(call)]["PhoneGrouped"] # <<>>
  /\ rx[TextOf(call)]["PhoneGrouped"][1][1]
       < rx[TextOf(call)]["PhoneNorthAmerican"][1][1]
  /\ call.contact_info.phone = re_findall("PhoneNorthAmerican", TextOf(call))[1]
  /\ call.contact_info.phone # re_findall("PhoneGrouped", TextOf(call))[1]

\* ------------------------------------------------------------------------
\* Properties of extract_client_information
\* ------------------------------------------------------------------------

\* the lines of a text that are not empty, each as <<first, last>>
LineSpans(cs) ==
  {<<a, b>> \in (1..Len(cs)) \X (1..Len(cs)) :
     /\ a <= b
     /\ \A i \in a..b : cs[i] # "\n"
     /\ a = 1 \/ cs[a - 1] = "\n"
     /\ b = Len(cs) \/ cs[b + 1] = "\n"}

\* what follows "client" and the spaces after it in a line that begins with
\* it, in any case; <<>> for the other lines
AfterClientWord(line) ==
  IF Len(Strip(line)) >= 6
     /\ ToLower(SubSeq(Strip(line), 1, 6)) = <<"c","l","i","e","n","t">>
    THEN StripLeft(SubSeq(Strip(line), 7, Len(Strip(line))))
    ELSE <<>>

\* the trimmed remainders of the "Client:" lines of a text
ClientRemainders(cs) ==
  {Strip(Tail(AfterClientWord(SubSeq(cs, l[1], l[2]))))  :
     l \in {l \in LineSpans(cs) :
              /\ AfterClientWord(SubSeq(cs, l[1], l[2])) # <<>>
              /\ Head(AfterClientWord(SubSeq(cs, l[1], l[2]))) = ":"}}

\* C11: extract_client_information returns the trimmed remainders of every
\* "Client:" line of the text, each of several consecutive ones included,
\* but for those of at most two characters and for "client", "customer" and
\* "account" in any case; with or without a doc.
C11_EveryClientLine ==
  (call.op = "extract_client_information" /\ call.outcome = "return") =>
    call.clients =
      {c \in ClientRemainders(Chars(TextOf(call))) :
         Len(c) > 2 /\ ToLower(c) \notin GenericClients}

\* ------------------------------------------------------------------------
\* The app: runs of the script
\* ------------------------------------------------------------------------

NextApp ==
  \/ AppStart
  \/ MatchTab

SpecApp == Init /\ [][NextApp]_vars

\* C12: in the Match Resumes flow the entries displayed are the top_n
\* highest-scoring of the resumes processed, in descending order of score,
\* whatever the order the directory lists them in.
C12_TopMatchesAreTheBest ==
  (call.op = "match_tab" /\ call.displayed # <<>>) =>
    /\ \A i, j \in DOMAIN call.displayed :
         i < j => call.displayed[i].score >= call.displayed[j].score
    /\ \A i \in DOMAIN call.displayed, k \in DOMAIN call.matches :
         k > Len(call.displayed) => call.displayed[i].score >= call.matches[k].score

====
